---- MODULE Spec2Model ----
(***************************************************************************)
(* A model of the POCSAG codec of sqpp/pocsag-golang: the BCH(31,21) and   *)
(* parity arithmetic, the address and message codewords, the packet        *)
(* assembly, the frame decoder and the audio modem.                        *)
(*                                                                         *)
(* A uint32 is a tuple of 32 bits, w[i+1] being bit i (TLC's integers stop *)
(* at 2^31-1).  Bytes, uint16 values and int16 samples are integers.       *)
(***************************************************************************)
EXTENDS Integers, Sequences, FiniteSets, TLC

(***************************************************************************)
(* Machine arithmetic                                                      *)
(***************************************************************************)

\* A function constructor as a tuple: TLC evaluates [i \in 1..n |-> e] element
\* by element at every use, and a tuple once.
Tup(f) == <<>> \o f

\* the uint32 whose value is n, for 0 <= n < 2^31
U32(n) == Tup([i \in 1..32 |-> IF i = 32 THEN 0 ELSE (n \div (2^(i-1))) % 2])

Bit(w, i) == w[i+1]

Shl(w, k) == Tup([i \in 1..32 |-> IF i - k >= 1 THEN w[i-k] ELSE 0])

Shr(w, k) == Tup([i \in 1..32 |-> IF i + k <= 32 THEN w[i+k] ELSE 0])

And32(a, b) == Tup([i \in 1..32 |-> a[i] * b[i]])

Or32(a, b) == Tup([i \in 1..32 |-> IF a[i] + b[i] > 0 THEN 1 ELSE 0])

Xor32(a, b) == Tup([i \in 1..32 |-> (a[i] + b[i]) % 2])

\* the value of bits hi..lo of w as an integer (hi - lo < 31)
RECURSIVE Field(_, _, _)
Field(w, hi, lo) ==
  IF hi < lo THEN 0 ELSE 2 * Field(w, hi, lo + 1) + Bit(w, lo)

\* bitwise operations on non-negative integers (bytes, uint16)
RECURSIVE BitAnd(_, _)
BitAnd(a, b) ==
  IF a = 0 \/ b = 0 THEN 0
  ELSE (a % 2) * (b % 2) + 2 * BitAnd(a \div 2, b \div 2)

RECURSIVE BitOr(_, _)
BitOr(a, b) ==
  IF a = 0 THEN b
  ELSE IF b = 0 THEN a
  ELSE (IF (a % 2) + (b % 2) > 0 THEN 1 ELSE 0) + 2 * BitOr(a \div 2, b \div 2)

\* byte(x): truncation to 8 bits
Byte(x) == x % 256

(***************************************************************************)
(* Constants of the protocol                                               *)
(***************************************************************************)

PreambleLength == 576

FrameSyncWord == U32(2094142936)   \* 0x7CD215D8

IdleCodeword == U32(2055848343)    \* 0x7A89C197

FuncNumeric == 0

FuncAlphanumeric == 3

\* 0xFFFFF800
AddressMask == Tup([i \in 1..32 |-> IF i >= 12 THEN 1 ELSE 0])

GeneratorPoly == 1897              \* 0x769

NumDataBits == 21

NumTotalBits == 31

(***************************************************************************)
(* bch.go                                                                  *)
(***************************************************************************)

RECURSIVE BCHLoop(_, _, _, _)
BCHLoop(i, dividend, generator, mask) ==
  IF i >= NumDataBits THEN dividend
  ELSE BCHLoop(i + 1,
               IF And32(dividend, mask) # U32(0)
                 THEN Xor32(dividend, generator) ELSE dividend,
               Shr(generator, 1),
               Shr(mask, 1))

\* the division run on x as given, the check bits not cleared first
CalculateBCHUnmasked(x0) ==
  Or32(x0, BCHLoop(0, x0, Shl(U32(GeneratorPoly), NumDataBits),
                   Shl(U32(1), NumTotalBits)))

CalculateBCH(x0) ==
  LET x == And32(x0, AddressMask)
  IN  Or32(x, BCHLoop(0, x, Shl(U32(GeneratorPoly), NumDataBits),
                      Shl(U32(1), NumTotalBits)))

RECURSIVE ParityCount(_, _)
ParityCount(x, i) ==
  IF i >= NumTotalBits THEN 0
  ELSE (IF Bit(x, i) # 0 THEN 1 ELSE 0) + ParityCount(x, i + 1)

\* the parity bit inverted: odd parity over the 32 bits
CalculateOddParity(x) == Or32(x, U32((ParityCount(x, 1) + 1) % 2))

CalculateEvenParity(x) == Or32(x, U32(ParityCount(x, 1) % 2))

(***************************************************************************)
(* encoder.go: codewords                                                   *)
(***************************************************************************)

\* a uint32 address argument is an integer below 2^31 here
EncodeAddress(address, function) ==
  LET a1 == Shr(U32(address), 3)
      a2 == And32(a1, U32(524287))
      a3 == Shl(a2, 2)
      a4 == Or32(a3, U32(BitAnd(function, 3)))
      a5 == Shl(a4, 11)
  IN  CalculateEvenParity(CalculateBCH(a5))

(***************************************************************************)
(* encoder.go: payload encoders.  A string is a sequence of bytes.         *)
(***************************************************************************)

\* the byte as it is, its bits not reversed
NoReverse8(b0) == Byte(b0)

\* the nibble as it is, its bits not reversed
NoReverse4(n0) == BitAnd(n0, 15)

BitReverse8(b0) ==
  LET b1 == Byte(BitOr(BitAnd(b0, 240) \div 16, BitAnd(b0, 15) * 16))
      b2 == Byte(BitOr(BitAnd(b1, 204) \div 4, BitAnd(b1, 51) * 4))
      b3 == Byte(BitOr(BitAnd(b2, 170) \div 2, BitAnd(b2, 85) * 2))
  IN  b3

BitReverse4(n0) ==
  LET n1 == Byte(BitOr(BitAnd(n0, 12) \div 4, BitAnd(n0, 3) * 4))
      n2 == Byte(BitOr(BitAnd(n1, 10) \div 2, BitAnd(n1, 5) * 2))
  IN  BitAnd(n2, 15)

\* the switch of NumericBCDEncoder: character to BCD nibble
BCDNibble(ch) ==
  IF ch >= 48 /\ ch <= 57 THEN ch - 48
  ELSE IF ch = 85 \/ ch = 117 THEN 11
  ELSE IF ch = 32 THEN 12
  ELSE IF ch = 45 THEN 13
  ELSE IF ch = 93 THEN 14
  ELSE IF ch = 91 THEN 15
  ELSE 12

NumericBCDEncoder(message) ==
  LET nibbles == [i \in 1..Len(message) |-> BitReverse4(BCDNibble(message[i]))]
                   \o <<BitReverse4(10)>>
      numBytes == (Len(nibbles) + 1) \div 2
      packed == Tup([k \in 1..numBytes |->
                       BitOr(Byte(nibbles[2*k - 1] * 16),
                             IF 2*k <= Len(nibbles) THEN nibbles[2*k] ELSE 0)])
  IN  IF Len(nibbles) % 2 = 1
        THEN [packed EXCEPT ![numBytes] = BitOr(@, 3)]
        ELSE packed

\* lines 113-132: iteration i (0-based) of the loop of Ascii7BitEncoder, on the
\* locals st; currIdx is Len(st.encoded) throughout
Ascii7Step(message, i, st) ==
  LET tmp == ((BitAnd(BitReverse8(message[i+1]), 254) \div 2) * (2^st.shift)) % 65536
      curr1 == BitOr(st.curr, Byte(BitAnd(tmp, 255)))
      currIdx == Len(st.encoded)
      enc1 == IF currIdx > 0
                THEN [st.encoded EXCEPT
                        ![currIdx] = BitOr(@, Byte(BitAnd(tmp, 65280) \div 256))]
                ELSE st.encoded
      shift1 == st.shift + 1
  IN  IF shift1 = 8 THEN [encoded |-> enc1, shift |-> 0, curr |-> curr1]
      ELSE IF i < Len(message) - 1
        THEN [encoded |-> Append(enc1, curr1), shift |-> shift1, curr |-> 0]
        ELSE [encoded |-> enc1, shift |-> shift1, curr |-> curr1]

\* the locals after iterations lo .. hi-1 of the loop, in order, from the
\* locals st. The range is halved and the first half is computed before the
\* second starts, which keeps TLC's evaluation stack shallow.
RECURSIVE Ascii7Loop(_, _, _, _)
Ascii7Loop(message, st, lo, hi) ==
  IF lo >= hi THEN st
  ELSE IF hi = lo + 1 THEN Ascii7Step(message, lo, st)
  ELSE LET mid == (lo + hi) \div 2
       IN  CHOOSE r \in {Ascii7Loop(message, half, mid, hi) :
                           half \in {Ascii7Loop(message, st, lo, mid)}} : TRUE

Ascii7BitEncoder(message) ==
  LET st == Ascii7Loop(message, [encoded |-> <<>>, shift |-> 1, curr |-> 0],
                       0, Len(message))
  IN  IF st.curr > 0 THEN Append(st.encoded, st.curr) ELSE st.encoded

(***************************************************************************)
(* encoder.go: SplitMessageIntoFrames                                      *)
(***************************************************************************)

\* the number of codewords SplitMessageIntoFrames makes
SplitChunks(encoded7bit) == (Len(encoded7bit) \div 3) + 1

\* the three-byte (or shorter) big-endian read at byte offset curr (0-based)
RECURSIVE SplitTail(_, _, _, _)
SplitTail(encoded7bit, curr, j, remaining) ==
  IF j >= remaining THEN U32(0)
  ELSE Or32(Shl(U32(encoded7bit[curr + j + 1]), 24 - j * 8),
            SplitTail(encoded7bit, curr, j + 1, remaining))

SplitRead(encoded7bit, curr) ==
  LET remaining == Len(encoded7bit) - curr
  IN  IF remaining >= 3
        THEN Or32(Or32(Shl(U32(encoded7bit[curr + 1]), 24),
                       Shl(U32(encoded7bit[curr + 2]), 16)),
                  Shl(U32(encoded7bit[curr + 3]), 8))
        ELSE IF remaining > 0 THEN SplitTail(encoded7bit, curr, 0, remaining)
        ELSE U32(0)

\* 0xFFFFF000 and 0x0FFFFF00
EvenChunkMask == Tup([i \in 1..32 |-> IF i >= 13 THEN 1 ELSE 0])

OddChunkMask == Tup([i \in 1..32 |-> IF i >= 9 /\ i <= 28 THEN 1 ELSE 0])

MessageBit == Shl(U32(1), 31)

RECURSIVE SplitLoop(_, _, _, _)
SplitLoop(encoded7bit, chunks, i, curr) ==
  IF i >= chunks THEN <<>>
  ELSE
    LET remaining == Len(encoded7bit) - curr
        batch == SplitRead(encoded7bit, curr)
        shifted == IF i % 2 = 0
                     THEN Shr(And32(batch, EvenChunkMask), 1)
                     ELSE Shl(And32(batch, OddChunkMask), 3)
        curr1 == IF remaining >= 3
                   THEN (IF i % 2 = 0 THEN curr + 2 ELSE curr + 3)
                   ELSE curr
        cw == CalculateEvenParity(CalculateBCH(Or32(shifted, MessageBit)))
    IN  <<cw>> \o SplitLoop(encoded7bit, chunks, i + 1, curr1)

SplitMessageIntoFrames(encoded7bit) ==
  SplitLoop(encoded7bit, SplitChunks(encoded7bit), 0, 0)

(***************************************************************************)
(* encoder.go: CreatePOCSAGPacket                                          *)
(***************************************************************************)

ETX == 3

\* lines 207-214: the payload encoder is chosen by the function code
EncodeMessage(message, function) ==
  IF function = FuncNumeric THEN NumericBCDEncoder(message)
  ELSE Ascii7BitEncoder(Append(message, ETX))

\* at most one idle codeword of padding
PadOnce(codewords) ==
  IF Len(codewords) % 16 # 0 THEN Append(codewords, IdleCodeword) ELSE codewords

\* lines 219-222: pad with idle codewords to a multiple of 16
RECURSIVE PadToBatch(_)
PadToBatch(codewords) ==
  IF Len(codewords) % 16 # 0 THEN PadToBatch(Append(codewords, IdleCodeword))
  ELSE codewords

\* lines 199-222: the codeword list of the packet
PacketCodewords(address, message, function) ==
  PadToBatch(<<EncodeAddress(address, function)>>
               \o SplitMessageIntoFrames(EncodeMessage(message, function)))

writeUint32BE(val) ==
  <<Field(val, 31, 24), Field(val, 23, 16), Field(val, 15, 8), Field(val, 7, 0)>>

\* lines 231-235: the codewords written one after another, four bytes each
WriteCodewords(codewords) ==
  Tup([k \in 1..(4 * Len(codewords)) |->
         writeUint32BE(codewords[((k - 1) \div 4) + 1])[((k - 1) % 4) + 1]])

Preamble == Tup([i \in 1..(PreambleLength \div 8) |-> 170])

\* lines 224-236: preamble, one frame sync word, then the codewords
PacketBytes(codewords) ==
  Preamble \o writeUint32BE(FrameSyncWord) \o WriteCodewords(codewords)

CreatePOCSAGPacket(address, message, function) ==
  PacketBytes(PacketCodewords(address, message, function))

(***************************************************************************)
(* The decoder: DecodeFromBinary and the payload decoders                  *)
(***************************************************************************)

\* binary.BigEndian.Uint32(data[i:]), i a 0-based offset with i+3 < Len(data)
\* bit b of the word is bit b % 8 of the byte at offset i + 3 - b \div 8
BE32(data, i) ==
  Tup([k \in 1..32 |->
         (data[i + 4 - ((k - 1) \div 8)] \div (2^((k - 1) % 8))) % 2])

\* the least element of a non-empty set of integers
Least(S) == CHOOSE k \in S : \A j \in S : k <= j

\* the search loop visiting the offsets that are multiples of 4 only
SyncOffsetsAligned(data) ==
  {i \in 0..(Len(data) - 4) : i % 4 = 0 /\ BE32(data, i) = FrameSyncWord}

\* the search loop stopping one offset early (i < len(data)-4)
SyncOffsetsShort(data) ==
  {i \in 0..(Len(data) - 5) : BE32(data, i) = FrameSyncWord}

\* lines 152-158: the offsets i the search loop visits (i < len(data)-3) at
\* which the big-endian word is the sync word
SyncOffsets(data) ==
  {i \in 0..(Len(data) - 4) : BE32(data, i) = FrameSyncWord}

\* lines 151-158: the first byte offset holding the sync word, or -1
FindSync(data) ==
  LET found == SyncOffsets(data)
  IN  IF found = {} THEN -1 ELSE Least(found)

\* lines 220-229: the 20-bit fields (bits 30..11) of the codewords, MSB first
MessageBits(codewords) ==
  Tup([k \in 1..(20 * Len(codewords)) |->
         Bit(codewords[((k - 1) \div 20) + 1], 30 - ((k - 1) % 20))])

bcdToChar(nibble) ==
  IF nibble <= 9 THEN 48 + nibble
  ELSE IF nibble = 11 THEN 85
  ELSE IF nibble = 12 THEN 32
  ELSE IF nibble = 13 THEN 45
  ELSE IF nibble = 14 THEN 93
  ELSE IF nibble = 15 THEN 91
  ELSE 0

\* lines 241-245: the nibble the loop of decodeNumericFromBits reads in its
\* k-th iteration (k = 1, 2, ...; bit offset i = 4*(k-1))
NumericNibbles(bits) ==
  Tup([k \in 1..(Len(bits) \div 4) |->
         BitReverse4(8 * bits[4*k - 3] + 4 * bits[4*k - 2] + 2 * bits[4*k - 1]
                       + bits[4*k])])

\* lines 247-250: the prefix of the iterations before the first stop value
\* (the break), all of them if there is none
BeforeStop(vals, stop) ==
  LET stops == {k \in 1..Len(vals) : vals[k] = stop}
  IN  IF stops = {} THEN vals ELSE SubSeq(vals, 1, Least(stops) - 1)

NumericKept(char) == char # 0

\* lines 240-256: the loop appends the character of every nibble before the
\* terminator 0xA, unless bcdToChar gives 0
NumericLoop(bits) ==
  LET nibbles == BeforeStop(NumericNibbles(bits), 10)
  IN  SelectSeq(Tup([k \in 1..Len(nibbles) |-> bcdToChar(nibbles[k])]), NumericKept)

\* lines 258-261: trailing spaces are removed
TrimTrailingSpaces(msg) ==
  LET kept == {k \in 1..Len(msg) : msg[k] # 32}
  IN  IF kept = {} THEN <<>>
      ELSE SubSeq(msg, 1, CHOOSE k \in kept : \A j \in kept : j <= k)

decodeNumericFromBits(bits) == TrimTrailingSpaces(NumericLoop(bits))

\* lines 290-295: the character the loop of decodeAlphaFromBits reads in its
\* k-th iteration (k = 1, 2, ...; bit offset i = 7*(k-1))
AlphaChars(bits) ==
  Tup([k \in 1..(Len(bits) \div 7) |->
         BitReverse8(Byte((64 * bits[7*k - 6] + 32 * bits[7*k - 5] + 16 * bits[7*k - 4]
                             + 8 * bits[7*k - 3] + 4 * bits[7*k - 2] + 2 * bits[7*k - 1]
                             + bits[7*k]) * 2))])

\* lines 301-306: a null byte is skipped, a printable character is appended
AlphaKept(char) == char # 0 /\ char >= 32 /\ char <= 126

\* lines 289-307: the loop appends the printable characters before the first
\* ETX (0x03)
decodeAlphaFromBits(bits) == SelectSeq(BeforeStop(AlphaChars(bits), 3), AlphaKept)

\* every buffer decoded as 7-bit ASCII, whatever the function code
decodeMessageAlpha(codewords, function) == decodeAlphaFromBits(MessageBits(codewords))

decodeMessage(codewords, function) ==
  IF function = FuncNumeric THEN decodeNumericFromBits(MessageBits(codewords))
  ELSE decodeAlphaFromBits(MessageBits(codewords))

DecodedMessage(address, function, msg) ==
  [Address |-> address, Function |-> function, Message |-> msg,
   IsNumeric |-> (function = FuncNumeric)]

\* lines 167-169: the collecting state when the loop starts
CollectInit ==
  [currentAddress |-> 0, currentFunction |-> 0,
   messageCodewords |-> <<>>, messages |-> <<>>]

\* a message emitted for every non-zero address, buffer or no buffer
FlushEmptyToo(st) ==
  IF st.currentAddress # 0
    THEN Append(st.messages,
                DecodedMessage(st.currentAddress, st.currentFunction,
                               decodeMessage(st.messageCodewords, st.currentFunction)))
    ELSE st.messages

\* lines 192-195 and 210-213: emit the pending message, if any
Flush(st) ==
  IF Len(st.messageCodewords) > 0 /\ st.currentAddress # 0
    THEN Append(st.messages,
                DecodedMessage(st.currentAddress, st.currentFunction,
                               decodeMessage(st.messageCodewords, st.currentFunction)))
    ELSE st.messages

\* the field taken one bit too low: (cw >> 10) & 0x1FFFFF
AddressFieldFromBit10(cw) == Field(cw, 30, 10)

\* line 199: data := (cw >> 11) & 0x1FFFFF
AddressField(cw) == Field(cw, 31, 11)

\* line 200: currentFunction = uint8(data & 0x3)
FieldFunction(field) == BitAnd(field, 3)

\* the address without the shift: (data >> 2) & 0x7FFFF
FieldAddressUnshifted(field) == BitAnd(field \div 4, 524287)

\* line 201: currentAddress = ((data >> 2) & 0x7FFFF) << 3
FieldAddress(field) == BitAnd(field \div 4, 524287) * 8

\* the loop with the idle codeword ending the message in progress
CollectStepIdleEnds(st, cw) ==
  IF cw = FrameSyncWord THEN st
  ELSE IF cw = IdleCodeword THEN [st EXCEPT !.messageCodewords = <<>>, !.messages = Flush(st)]
  ELSE IF Bit(cw, 31) = 0 THEN
    [currentAddress |-> FieldAddress(AddressField(cw)),
     currentFunction |-> FieldFunction(AddressField(cw)),
     messageCodewords |-> <<>>,
     messages |-> Flush(st)]
  ELSE IF st.currentAddress # 0
    THEN [st EXCEPT !.messageCodewords = Append(@, cw)]
    ELSE st

\* the loop with every message codeword buffered, address or no address
CollectStepNoContextCheck(st, cw) ==
  IF cw = FrameSyncWord THEN st
  ELSE IF cw = IdleCodeword THEN st
  ELSE IF Bit(cw, 31) = 0 THEN
    [currentAddress |-> FieldAddress(AddressField(cw)),
     currentFunction |-> FieldFunction(AddressField(cw)),
     messageCodewords |-> <<>>,
     messages |-> Flush(st)]
  ELSE [st EXCEPT !.messageCodewords = Append(@, cw)]

\* lines 175-206: one iteration of the loop, on the codeword cw just read
CollectStep(st, cw) ==
  IF cw = FrameSyncWord THEN st
  ELSE IF cw = IdleCodeword THEN st
  ELSE IF Bit(cw, 31) = 0 THEN
    [currentAddress |-> FieldAddress(AddressField(cw)),
     currentFunction |-> FieldFunction(AddressField(cw)),
     messageCodewords |-> <<>>,
     messages |-> Flush(st)]
  ELSE IF st.currentAddress # 0
    THEN [st EXCEPT !.messageCodewords = Append(@, cw)]
    ELSE st

\* lines 171-207: the locals after iterations lo .. hi-1 of the loop, in
\* order, from the locals st; iteration k reads the codeword at byte offset
\* start + 4k. The range is halved and the first half is computed before the
\* second starts, which keeps TLC's evaluation stack shallow.
RECURSIVE CollectLoop(_, _, _, _, _)
CollectLoop(data, start, st, lo, hi) ==
  IF lo >= hi THEN st
  ELSE IF hi = lo + 1 THEN CollectStep(st, BE32(data, start + 4 * lo))
  ELSE LET mid == (lo + hi) \div 2
       IN  CHOOSE r \in {CollectLoop(data, start, half, mid, hi) :
                           half \in {CollectLoop(data, start, st, lo, mid)}} : TRUE

CollectAfter(data, start, n) == CollectLoop(data, start, CollectInit, 0, n)

\* the number of iterations of the loop: idx+3 < len(data), idx = start, start+4, ...
CollectCount(data, start) ==
  IF Len(data) - start >= 4 THEN (Len(data) - start) \div 4 ELSE 0

ErrNoSync == "frame sync word not found"

ErrTooShort == "invalid WAV file: too short"

\* a returned ([]DecodedMessage, error): the list is nil with an error
Failure(e) == [messages |-> <<>>, isNil |-> TRUE, err |-> e]

Success(list) == [messages |-> list, isNil |-> FALSE, err |-> ""]

DecodeFromBinary(data) ==
  LET syncIdx == FindSync(data)
  IN  IF syncIdx = -1 THEN Failure(ErrNoSync)
      ELSE Success(Flush(CollectAfter(data, syncIdx + 4,
                                      CollectCount(data, syncIdx + 4))))

(***************************************************************************)
(* audio.go: the modulator and the WAV container                           *)
(***************************************************************************)

SampleRate == 48000

BitsPerSample == 16

NumChannels == 1

BaudRate1200 == 1200

BaudRate512 == 512

BaudRate2400 == 2400

SymbolHigh == -12287

SymbolLow == 12287

\* binary.Write of a uint32 (below 2^31), a uint16 and an int16, little endian
LE32(n) == <<n % 256, (n \div 256) % 256, (n \div 65536) % 256, (n \div 16777216) % 256>>

LE16(n) == <<n % 256, (n \div 256) % 256>>

LEInt16(v) == LE16(IF v < 0 THEN v + 65536 ELSE v)

createWAVFile(samples) ==
  LET dataSize == Len(samples) * 2
      fileSize == 36 + dataSize
      byteRate == (SampleRate * NumChannels * BitsPerSample) \div 8
      blockAlign == (NumChannels * BitsPerSample) \div 8
      header == <<82, 73, 70, 70>> \o LE32(fileSize) \o <<87, 65, 86, 69>>
                  \o <<102, 109, 116, 32>> \o LE32(16) \o LE16(1)
                  \o LE16(NumChannels) \o LE32(SampleRate) \o LE32(byteRate)
                  \o LE16(blockAlign) \o LE16(BitsPerSample)
                  \o <<100, 97, 116, 97>> \o LE32(dataSize)
  IN  header \o [k \in 1..(2 * Len(samples)) |->
                   LEInt16(samples[(k + 1) \div 2])[2 - (k % 2)]]

\* the bits of every byte taken LSB first
ModulatedSamplesLSBFirst(pocsagData, samplesPerSymbol) ==
  Tup([k \in 1..(Len(pocsagData) * 8 * samplesPerSymbol) |->
         LET bitIdx == (k - 1) \div samplesPerSymbol
             b == pocsagData[(bitIdx \div 8) + 1]
             i == bitIdx % 8
             bit == BitAnd(b \div (2^i), 1)
         IN  IF bit = 1 THEN SymbolHigh ELSE SymbolLow])

\* lines 41-63: every bit of every byte, MSB first, held samplesPerSymbol samples
ModulatedSamples(pocsagData, samplesPerSymbol) ==
  Tup([k \in 1..(Len(pocsagData) * 8 * samplesPerSymbol) |->
         LET bitIdx == (k - 1) \div samplesPerSymbol
             b == pocsagData[(bitIdx \div 8) + 1]
             i == 7 - (bitIdx % 8)
             bit == BitAnd(b \div (2^i), 1)
         IN  IF bit = 1 THEN SymbolHigh ELSE SymbolLow])

ConvertToAudioWithBaudRate(pocsagData, baudRate) ==
  createWAVFile(ModulatedSamples(pocsagData, SampleRate \div baudRate))

ConvertToAudio(pocsagData) == ConvertToAudioWithBaudRate(pocsagData, BaudRate1200)

(***************************************************************************)
(* The demodulator: DecodeFromAudio                                        *)
(***************************************************************************)

WavHeaderLen == 44

SamplesPerBit == 40

\* division rounding toward minus infinity
FloorDiv(a, b) == a \div b

\* Go's integer division truncates toward zero
GoDiv(a, b) == IF a >= 0 THEN a \div b ELSE -((-a) \div b)

\* lines 103-107: int16(binary.LittleEndian.Uint16(wavData[i:])), i = 44, 46, ...
\* while i < len(wavData)-1
WavSamples(wavData) ==
  Tup([k \in 1..((Len(wavData) - WavHeaderLen) \div 2) |->
         LET u == wavData[WavHeaderLen + 2*k - 1] + 256 * wavData[WavHeaderLen + 2*k]
         IN  IF u >= 32768 THEN u - 65536 ELSE u])

RECURSIVE WindowSum(_, _, _)
WindowSum(samples, i, j) ==
  IF j >= SamplesPerBit THEN 0
  ELSE samples[i + j + 1] + WindowSum(samples, i, j + 1)

\* lines 113-131: one bit per complete window of SamplesPerBit samples
DemodulatedBits(samples) ==
  Tup([w \in 1..(Len(samples) \div SamplesPerBit) |->
         IF GoDiv(WindowSum(samples, (w - 1) * SamplesPerBit, 0), SamplesPerBit) < 0
           THEN 1 ELSE 0])

\* lines 134-141: eight bits per byte, MSB first
BitsToBytes(bits) ==
  Tup([k \in 1..(Len(bits) \div 8) |->
         128 * bits[8*k - 7] + 64 * bits[8*k - 6] + 32 * bits[8*k - 5] + 16 * bits[8*k - 4]
           + 8 * bits[8*k - 3] + 4 * bits[8*k - 2] + 2 * bits[8*k - 1] + bits[8*k]])

Demodulate(wavData) == BitsToBytes(DemodulatedBits(WavSamples(wavData)))

\* the length check one byte short (len(wavData) < 43)
DecodeFromAudioShortCheck(wavData) ==
  IF Len(wavData) < WavHeaderLen - 1 THEN Failure(ErrTooShort)
  ELSE DecodeFromBinary(Demodulate(wavData))

DecodeFromAudio(wavData) ==
  IF Len(wavData) < WavHeaderLen THEN Failure(ErrTooShort)
  ELSE DecodeFromBinary(Demodulate(wavData))

(***************************************************************************)
(* The state: one call chain at a time.  pc is the position in it.         *)
(***************************************************************************)

VARIABLES
  pc,                \* the position in the call chain
  address,           \* arguments of EncodeAddress and CreatePOCSAGPacket
  function,
  message,
  addressCW,         \* the address codeword (encoder.go line 203)
  codewords,         \* the codeword list of CreatePOCSAGPacket (lines 200-222)
  packet,            \* the bytes CreatePOCSAGPacket returns
  wavData,           \* the argument of DecodeFromAudio
  data,              \* the argument of DecodeFromBinary
  currentAddress,    \* DecodeFromBinary's locals when its loop ends
  currentFunction,
  ret,               \* what the decoder returned
  baudRate,          \* the argument of ConvertToAudioWithBaudRate
  x,                 \* the argument of CalculateBCH and CalculateEvenParity
  y,                 \* the word they return
  encoded7bit,       \* the argument of SplitMessageIntoFrames
  altData,           \* a second stream for DecodeFromBinary
  altRet,            \* what the decoder returned for it
  calls,             \* two calls in progress: what each runs, on what, how far
  mem,               \* the variables of the calls in progress, by location
  raced,             \* a step read a location that another call wrote
  idx,               \* DecodeFromBinary's locals while its loop runs
  messageCodewords,
  messages

loopVars == <<idx, messageCodewords, messages>>

others == <<baudRate, x, y, encoded7bit, altData, altRet, calls, mem, raced, loopVars>>

vars == <<pc, address, function, message, addressCW, codewords, packet, wavData,
          data, currentAddress, currentFunction, ret, others>>

NoReturn == [messages |-> <<>>, isNil |-> TRUE, err |-> "(not returned)"]

\* everything but the inputs, before any call
Blank ==
  /\ addressCW = U32(0)
  /\ codewords = <<>>
  /\ packet = <<>>
  /\ currentAddress = 0
  /\ currentFunction = 0
  /\ ret = NoReturn

NoCalls == calls = <<>> /\ mem = <<>> /\ raced = FALSE

NoLoop == idx = 0 /\ messageCodewords = <<>> /\ messages = <<>>

\* the variables of the other specifications, at rest
Unused ==
  /\ baudRate = BaudRate1200
  /\ x = U32(0)
  /\ y = U32(0)
  /\ encoded7bit = <<>>
  /\ altData = <<>>
  /\ altRet = NoReturn
  /\ NoCalls
  /\ NoLoop

(***************************************************************************)
(* Inputs                                                                  *)
(***************************************************************************)

MaxTextLen == 52

MaxShortLen == 2

SeqsUpTo(S, n) == UNION {[1..k -> S] : k \in 0..n}

\* a text of n characters cycling through the characters of pattern
Cycle(pattern, n) == Tup([i \in 1..n |-> pattern[((i - 1) % Len(pattern)) + 1]])

\* "Az 09~!" and "0123456789 -[]U"
AlphaPattern == <<65, 122, 32, 48, 57, 126, 33>>

NumericPattern == <<48, 49, 50, 51, 52, 53, 54, 55, 56, 57, 32, 45, 91, 93, 85>>

ShortAlphaTexts == SeqsUpTo({32, 65, 126}, MaxShortLen)

AlphaTexts == {Cycle(AlphaPattern, n) : n \in 0..MaxTextLen} \cup ShortAlphaTexts

NumericTexts ==
  {Cycle(NumericPattern, n) : n \in 0..MaxTextLen} \cup SeqsUpTo({48, 32, 85}, MaxShortLen)

\* the texts tried with a function code: function codes 1 and 2 take the
\* encoder of function 3 (encoder.go lines 207-214)
TextsFor(f) ==
  IF f = FuncNumeric THEN NumericTexts
  ELSE IF f = FuncAlphanumeric THEN AlphaTexts
  ELSE ShortAlphaTexts

\* "Broadcast this on hackrf"
ExampleText ==
  <<66, 114, 111, 97, 100, 99, 97, 115, 116, 32, 116, 104, 105, 115, 32,
    111, 110, 32, 104, 97, 99, 107, 114, 102>>

ExampleAddress == 4444

\* the least and the greatest non-zero multiple of 8 below 2^21
PacketAddresses == {8, 2097144}

(***************************************************************************)
(* Encoding then decoding one message: Spec                                *)
(***************************************************************************)

Init ==
  /\ pc = "start"
  /\ address \in PacketAddresses
  /\ function \in 0..3
  /\ message \in TextsFor(function)
  /\ wavData = <<>>
  /\ data = <<>>
  /\ Blank
  /\ Unused

\* packet := CreatePOCSAGPacket(address, message, function)
CallCreatePOCSAGPacket ==
  /\ pc = "start"
  /\ addressCW' = EncodeAddress(address, function)
  /\ codewords' = PacketCodewords(address, message, function)
  /\ packet' = PacketBytes(codewords')
  /\ pc' = "encoded"
  /\ UNCHANGED <<address, function, message, wavData, data, currentAddress,
                 currentFunction, ret>>
  /\ UNCHANGED others

\* DecodeFromBinary(packet)
CallDecodeFromBinary ==
  /\ pc = "encoded"
  /\ data' = packet
  /\ ret' = DecodeFromBinary(packet)
  /\ pc' = "done"
  /\ UNCHANGED <<address, function, message, addressCW, codewords, packet, wavData,
                 currentAddress, currentFunction>>
  /\ UNCHANGED others

Next == CallCreatePOCSAGPacket \/ CallDecodeFromBinary

Spec == Init /\ [][Next]_vars

(***************************************************************************)
(* Properties of Spec                                                      *)
(***************************************************************************)

\* a text of printable ASCII characters 0x20-0x7E
IsPrintableText(t) == \A k \in 1..Len(t) : t[k] >= 32 /\ t[k] <= 126

\* a text over 0-9, space, hyphen, brackets and U
IsNumericText(t) ==
  \A k \in 1..Len(t) : (t[k] >= 48 /\ t[k] <= 57) \/ t[k] \in {32, 45, 91, 93, 85}

\* a non-zero multiple of 8 below 2^22
IsPagerAddress(a) == a # 0 /\ a % 8 = 0 /\ a < 4194304

\* t is u without u's trailing spaces
IsTrimOf(t, u) ==
  /\ Len(t) <= Len(u)
  /\ t = SubSeq(u, 1, Len(t))
  /\ \A k \in (Len(t) + 1)..Len(u) : u[k] = 32
  /\ (Len(t) > 0 => t[Len(t)] # 32)

\* the decoder returned exactly one message, with these fields
ReturnedOne(r, a, f, text, numeric) ==
  /\ r.err = ""
  /\ ~r.isNil
  /\ Len(r.messages) = 1
  /\ r.messages[1].Address = a
  /\ r.messages[1].Function = f
  /\ r.messages[1].Message = text
  /\ r.messages[1].IsNumeric = numeric

\* C1: a printable text of any length sent with function 3 to a non-zero
\* in-range address that is a multiple of 8 comes back from
\* DecodeFromBinary(CreatePOCSAGPacket(..)) as exactly one message with that
\* address, function 3, that text and IsNumeric false.
C1_AsciiRoundTrip ==
  (pc = "done" /\ function = FuncAlphanumeric /\ IsPagerAddress(address)
     /\ IsPrintableText(message))
    => ReturnedOne(ret, address, FuncAlphanumeric, message, FALSE)

\* C2: a numeric text of any length sent with function 0 to such an address
\* comes back as exactly one message with that address, function 0, IsNumeric
\* true and the text without its trailing spaces.
C2_NumericRoundTrip ==
  (pc = "done" /\ function = FuncNumeric /\ IsPagerAddress(address)
     /\ IsNumericText(message))
    => /\ Len(ret.messages) = 1
       /\ ReturnedOne(ret, address, FuncNumeric, ret.messages[1].Message, TRUE)
       /\ IsTrimOf(ret.messages[1].Message, message)

\* the number of message codewords SplitMessageIntoFrames made of the message
MessageCodewordCount == SplitChunks(EncodeMessage(message, function))

\* C6: the codeword list CreatePOCSAGPacket assembles has a length that is a
\* positive multiple of 16, and every codeword after the last message
\* codeword is the idle codeword.
C6_BatchPadding ==
  pc # "start" =>
    /\ Len(codewords) > 0
    /\ Len(codewords) % 16 = 0
    /\ \A k \in 1..Len(codewords) :
         k > 1 + MessageCodewordCount => codewords[k] = IdleCodeword

\* a list of two batches: address codeword, 16 message codewords, 15 idle ones
C6_Witness ==
  /\ pc = "encoded"
  /\ Len(codewords) = 32
  /\ MessageCodewordCount = 16
  /\ codewords[17] # IdleCodeword
  /\ codewords[18] = IdleCodeword

\* C7: a text packed into more than 15 message codewords, so that the list
\* crosses the 16-codeword batch boundary, is decoded from the stream of
\* CreatePOCSAGPacket as exactly one message carrying the complete text.
C7_LongMessage ==
  (pc = "done" /\ function = FuncAlphanumeric /\ IsPagerAddress(address)
     /\ IsPrintableText(message) /\ MessageCodewordCount > 15)
    => (Len(ret.messages) = 1 /\ ret.messages[1].Message = message)

\* C8: the byte stream of CreatePOCSAGPacket is 72 bytes 0xAA and then k >= 1
\* groups, each the sync word 7C D2 15 D8 and 16 big-endian codewords of the
\* list in order; its length is 72 + 68k.
C8_StreamLayout ==
  pc # "start" =>
    \E k \in 1..Len(packet) :
      /\ Len(packet) = 72 + 68 * k
      /\ Len(codewords) = 16 * k
      /\ \A i \in 1..72 : packet[i] = 170
      /\ \A g \in 0..(k - 1) :
           /\ SubSeq(packet, 73 + 68 * g, 76 + 68 * g) = <<124, 210, 21, 216>>
           /\ \A c \in 1..16 :
                SubSeq(packet, 73 + 68 * g + 4 * c, 76 + 68 * g + 4 * c)
                  = writeUint32BE(codewords[16 * g + c])

(***************************************************************************)
(* An address codeword encoded, then read by the decoder: SpecAddr         *)
(***************************************************************************)

MaxAddrIndex == 20

\* the first multiples of 8, the reference address, an address that is not a
\* multiple of 8, the addresses around 2^21 and below 2^22, and the addresses
\* held by the fields of the idle codeword (0x1EA270) and of the sync word
\* (0x1F3480)
AddrInputs ==
  {8 * k : k \in 0..MaxAddrIndex}
    \cup {123456, ExampleAddress, 2097144, 2097152, 4194296, 2007664, 2045056}

InitAddr ==
  /\ pc = "start"
  /\ address \in AddrInputs
  /\ function \in 0..3
  /\ message = <<>>
  /\ wavData = <<>>
  /\ data = <<>>
  /\ Blank
  /\ Unused

\* addressCW := EncodeAddress(address, function)
CallEncodeAddress ==
  /\ pc = "start"
  /\ addressCW' = EncodeAddress(address, function)
  /\ pc' = "encoded"
  /\ UNCHANGED <<address, function, message, codewords, packet, wavData, data,
                 currentAddress, currentFunction, ret>>
  /\ UNCHANGED others

\* the decoder's loop reads addressCW as its first codeword
ReadAddressCodeword ==
  /\ pc = "encoded"
  /\ currentAddress' = CollectStep(CollectInit, addressCW).currentAddress
  /\ currentFunction' = CollectStep(CollectInit, addressCW).currentFunction
  /\ pc' = "decoded"
  /\ UNCHANGED <<address, function, message, addressCW, codewords, packet, wavData,
                 data, ret>>
  /\ UNCHANGED others

NextAddr == CallEncodeAddress \/ ReadAddressCodeword

SpecAddr == InitAddr /\ [][NextAddr]_vars

\* C4: for an address that is a multiple of 8 below 2^22 and a function code
\* in 0..3, EncodeAddress gives an address codeword (bit 31 is 0) from which
\* the decoder extracts that address and that function code.
C4_AddressRoundTrip ==
  (pc = "decoded" /\ address % 8 = 0 /\ address < 4194304 /\ function \in 0..3)
    => /\ Bit(addressCW, 31) = 0
       /\ FieldAddress(AddressField(addressCW)) = address
       /\ FieldFunction(AddressField(addressCW)) = function
       /\ currentAddress = address
       /\ currentFunction = function

\* C5: EncodeAddress(123456, 3) is 0x0789182E and EncodeAddress(123456, 0) is
\* 0x0789058B: CalculateBCH and CalculateEvenParity add the check bits 0x02E
\* to the field 0x07891800 and 0x58B to the field 0x07890000.
C5_ReferenceVectors ==
  (pc # "start" /\ address = 123456) =>
    /\ function = 3 => addressCW = U32(126425134)
    /\ function = 0 => addressCW = U32(126420363)
    /\ CalculateEvenParity(CalculateBCH(U32(126425088)))
         = Or32(U32(126425088), U32(46))
    /\ CalculateEvenParity(CalculateBCH(U32(126418944)))
         = Or32(U32(126418944), U32(1419))

\* the reference address encoded with function 3
C5_Witness ==
  /\ pc = "encoded"
  /\ address = 123456
  /\ function = 3
  /\ Field(addressCW, 31, 11) * 2048 = 126425088
  /\ Field(addressCW, 10, 0) = 46

(***************************************************************************)
(* A packet turned into a WAV and decoded, and short WAV inputs: SpecAudio *)
(***************************************************************************)

MaxWavLen == 47

WavFillBytes == {0, 124, 255}

\* n bytes b
Fill(b, n) == Tup([k \in 1..n |-> b])

\* byte strings around the length of the WAV header
RawWavs == {Fill(b, n) : b \in WavFillBytes, n \in 0..MaxWavLen}

InitAudio ==
  /\ \/ /\ pc = "start"
        /\ address = ExampleAddress
        /\ function = FuncAlphanumeric
        /\ message = ExampleText
        /\ wavData = <<>>
     \/ /\ pc = "wav"
        /\ address = 0
        /\ function = 0
        /\ message = <<>>
        /\ wavData \in RawWavs
  /\ data = <<>>
  /\ Blank
  /\ Unused

\* wavData := ConvertToAudio(packet)
CallConvertToAudio ==
  /\ pc = "encoded"
  /\ wavData' = ConvertToAudio(packet)
  /\ pc' = "wav"
  /\ UNCHANGED <<address, function, message, addressCW, codewords, packet, data,
                 currentAddress, currentFunction, ret>>
  /\ UNCHANGED others

\* DecodeFromAudio(wavData); data is the pocsagData it hands to DecodeFromBinary
CallDecodeFromAudio ==
  /\ pc = "wav"
  /\ ret' = DecodeFromAudio(wavData)
  /\ data' = IF Len(wavData) < WavHeaderLen THEN data ELSE Demodulate(wavData)
  /\ pc' = "done"
  /\ UNCHANGED <<address, function, message, addressCW, codewords, packet, wavData,
                 currentAddress, currentFunction>>
  /\ UNCHANGED others

NextAudio == CallCreatePOCSAGPacket \/ CallConvertToAudio \/ CallDecodeFromAudio

SpecAudio == InitAudio /\ [][NextAudio]_vars

\* C3: address 4444, "Broadcast this on hackrf", function 3, encoded with
\* CreatePOCSAGPacket and ConvertToAudio (1200 baud) and decoded with
\* DecodeFromAudio, gives exactly one message with address 4444, that text and
\* function 3.
C3_ExampleRoundTrip ==
  (pc = "done" /\ address = ExampleAddress /\ message = ExampleText
     /\ function = FuncAlphanumeric)
    => /\ ret.err = ""
       /\ Len(ret.messages) = 1
       /\ ret.messages[1].Address = 4444
       /\ ret.messages[1].Message = ExampleText
       /\ ret.messages[1].Function = 3

\* C9: DecodeFromAudio on an input shorter than 44 bytes returns the error
\* "invalid WAV file: too short" and no message list.
C9_ShortWavRejected ==
  (pc = "done" /\ Len(wavData) < 44) =>
    /\ ret.err = "invalid WAV file: too short"
    /\ ret.isNil
    /\ ret.messages = <<>>

\* a 43-byte input was rejected
C9_Witness ==
  /\ pc = "done"
  /\ Len(wavData) = 43
  /\ ret.err = "invalid WAV file: too short"
  /\ ret.isNil

(***************************************************************************)
(* DecodeFromBinary on arbitrary bytes: SpecDecode                         *)
(***************************************************************************)

MaxDataLen == 5

MaxStreamCodewords == 2

\* the bytes of the sync word: 7C D2 15 D8
SyncBytes == {124, 210, 21, 216}

\* codewords a stream may hold: two address codewords, the message codeword
\* of "A", the idle codeword and the sync word
CodewordPool ==
  {EncodeAddress(8, FuncAlphanumeric), EncodeAddress(16, FuncNumeric),
   SplitMessageIntoFrames(EncodeMessage(<<65>>, FuncAlphanumeric))[1],
   IdleCodeword, FrameSyncWord}

StreamPrefixes == {<<>>, <<170>>, <<124, 210>>}

StreamTails == {<<>>, <<1>>}

\* a prefix, the sync word, some codewords and a tail
Streams ==
  {pre \o writeUint32BE(FrameSyncWord) \o WriteCodewords(cws) \o tl :
     pre \in StreamPrefixes, cws \in SeqsUpTo(CodewordPool, MaxStreamCodewords),
     tl \in StreamTails}

DecodeInputs == SeqsUpTo(SyncBytes, MaxDataLen) \cup Streams

InitDecode ==
  /\ pc = "input"
  /\ data \in DecodeInputs
  /\ address = 0
  /\ function = 0
  /\ message = <<>>
  /\ wavData = <<>>
  /\ Blank
  /\ Unused

\* DecodeFromBinary(data)
CallDecodeFromBinaryOn ==
  /\ pc = "input"
  /\ ret' = DecodeFromBinary(data)
  /\ pc' = "done"
  /\ UNCHANGED <<address, function, message, addressCW, codewords, packet, wavData,
                 data, currentAddress, currentFunction>>
  /\ UNCHANGED others

NextDecode == CallDecodeFromBinaryOn

SpecDecode == InitDecode /\ [][NextDecode]_vars

\* four consecutive bytes of d are 7C D2 15 D8
HasSyncWord(d) ==
  \E i \in 1..(Len(d) - 3) :
    d[i] = 124 /\ d[i + 1] = 210 /\ d[i + 2] = 21 /\ d[i + 3] = 216

\* C10: DecodeFromBinary returns the error "frame sync word not found" and a
\* nil list exactly when no four consecutive bytes of the input are the sync
\* word (inputs shorter than 4 bytes included); otherwise it returns a list
\* and no error.
C10_SyncNotFound ==
  pc = "done" =>
    IF HasSyncWord(data)
      THEN ret.err = "" /\ ~ret.isNil
      ELSE ret.err = "frame sync word not found" /\ ret.isNil /\ ret.messages = <<>>

\* the bytes of the sync word are all there, but not in order
C10_Witness ==
  /\ pc = "done"
  /\ Len(data) = 5
  /\ SyncBytes \subseteq {data[k] : k \in 1..Len(data)}
  /\ ret.err = "frame sync word not found"
  /\ ret.isNil

(***************************************************************************)
(* Bytes turned into a WAV at a baud rate and demodulated: SpecBaud        *)
(***************************************************************************)

MaxPacketLen == 2

BaudRates == {BaudRate512, BaudRate1200, BaudRate2400}

\* 00, 55, AA, FF
PacketByteValues == {0, 85, 170, 255}

InitBaud ==
  /\ pc = "encoded"
  /\ packet \in SeqsUpTo(PacketByteValues, MaxPacketLen)
  /\ baudRate \in BaudRates
  /\ address = 0
  /\ function = 0
  /\ message = <<>>
  /\ addressCW = U32(0)
  /\ codewords = <<>>
  /\ wavData = <<>>
  /\ data = <<>>
  /\ currentAddress = 0
  /\ currentFunction = 0
  /\ ret = NoReturn
  /\ x = U32(0)
  /\ y = U32(0)
  /\ encoded7bit = <<>>
  /\ altData = <<>>
  /\ altRet = NoReturn
  /\ NoCalls
  /\ NoLoop

\* wavData := ConvertToAudioWithBaudRate(packet, baudRate)
CallConvertToAudioWithBaudRate ==
  /\ pc = "encoded"
  /\ wavData' = ConvertToAudioWithBaudRate(packet, baudRate)
  /\ pc' = "wav"
  /\ UNCHANGED <<address, function, message, addressCW, codewords, packet, data,
                 currentAddress, currentFunction, ret>>
  /\ UNCHANGED others

NextBaud == CallConvertToAudioWithBaudRate \/ CallDecodeFromAudio

SpecBaud == InitBaud /\ [][NextBaud]_vars

\* C11: for each baud rate in {512, 1200, 2400} and every byte sequence p,
\* the demodulator run on ConvertToAudioWithBaudRate(p, baud) hands the frame
\* decoder exactly the bytes p.
C11_SameBaudDemodulation ==
  (pc = "done" /\ baudRate \in BaudRates) => data = packet

\* bit number n (0 is the first) of the byte sequence p, MSB first per byte
NthBit(p, n) == (p[(n \div 8) + 1] \div (2^(7 - (n % 8)))) % 2

\* C12: for every byte sequence p and baud rate in {512, 1200, 2400},
\* ConvertToAudioWithBaudRate(p, baud) is 44 + 2*8*len(p)*(48000 div baud)
\* bytes: a header starting with "RIFF", with "WAVE" at offset 8 and a data
\* size of twice the number of samples, then one little-endian 16-bit sample
\* per position, -12287 (01 D0) for a 1 bit and +12287 (FF 2F) for a 0 bit,
\* the bits MSB first per byte, each held 48000 div baud samples.
C12_WavLayout ==
  (pc # "encoded" /\ baudRate \in BaudRates) =>
    LET spb == 48000 \div baudRate
        n == 8 * Len(packet) * spb
    IN  /\ Len(wavData) = 44 + 2 * n
        /\ SubSeq(wavData, 1, 4) = <<82, 73, 70, 70>>
        /\ SubSeq(wavData, 9, 12) = <<87, 65, 86, 69>>
        /\ wavData[41] + 256 * wavData[42] + 65536 * wavData[43]
             + 16777216 * wavData[44] = 2 * n
        /\ \A k \in 0..(n - 1) :
             <<wavData[45 + 2 * k], wavData[46 + 2 * k]>>
               = IF NthBit(packet, k \div spb) = 1 THEN <<1, 208>> ELSE <<255, 47>>

\* the WAV of AA 55 at 512 baud: 2 * 8 * 93 samples
C12_Witness ==
  /\ pc = "wav"
  /\ baudRate = 512
  /\ packet = <<170, 85>>
  /\ Len(wavData) = 3020
  /\ <<wavData[45], wavData[46]>> = <<1, 208>>
  /\ <<wavData[45 + 2 * 93], wavData[46 + 2 * 93]>> = <<255, 47>>

(***************************************************************************)
(* A stream and the same stream with the check bits of one codeword        *)
(* changed, both decoded: SpecCheckBits                                    *)
(***************************************************************************)

MaxAltCodewords == 3

\* the word cw with bits 10..0 replaced by those of v
WithLowBits(cw, v) == Tup([i \in 1..32 |-> IF i <= 11 THEN (v \div (2^(i - 1))) % 2 ELSE cw[i]])

\* the idle codeword with its check bits cleared: 0x7A89C000
IdleFieldWord == And32(IdleCodeword, AddressMask)

\* codewords of a stream: an address codeword, the message codeword of "A",
\* a word with the data field of the idle codeword, the idle codeword and the
\* sync word
AltCodewordPool ==
  {EncodeAddress(8, FuncAlphanumeric),
   SplitMessageIntoFrames(EncodeMessage(<<65>>, FuncAlphanumeric))[1],
   IdleFieldWord, IdleCodeword, FrameSyncWord}

\* check bits to write: zeros, those of the idle codeword (0x197), those of
\* the sync word (0x5D8), ones
LowBitValues == {0, 407, 1496, 2047}

\* the sync word and then the codewords cws
StreamOf(cws) == writeUint32BE(FrameSyncWord) \o WriteCodewords(cws)

InitCheckBits ==
  /\ pc = "input"
  /\ \E cws \in SeqsUpTo(AltCodewordPool, MaxAltCodewords) :
       \E k \in 1..Len(cws) :
         \E v \in LowBitValues :
           /\ cws[k] \notin {FrameSyncWord, IdleCodeword}
           /\ data = StreamOf(cws)
           /\ altData = StreamOf([cws EXCEPT ![k] = WithLowBits(cws[k], v)])
  /\ address = 0
  /\ function = 0
  /\ message = <<>>
  /\ wavData = <<>>
  /\ Blank
  /\ baudRate = BaudRate1200
  /\ x = U32(0)
  /\ y = U32(0)
  /\ encoded7bit = <<>>
  /\ altRet = NoReturn
  /\ NoCalls
  /\ NoLoop

\* DecodeFromBinary(altData)
CallDecodeFromBinaryOnAlt ==
  /\ pc = "done"
  /\ altRet' = DecodeFromBinary(altData)
  /\ pc' = "both"
  /\ UNCHANGED <<address, function, message, addressCW, codewords, packet, wavData,
                 data, currentAddress, currentFunction, ret>>
  /\ UNCHANGED <<baudRate, x, y, encoded7bit, altData, calls, mem, raced, loopVars>>

NextCheckBits == CallDecodeFromBinaryOn \/ CallDecodeFromBinaryOnAlt

SpecCheckBits == InitCheckBits /\ [][NextCheckBits]_vars

\* the codewords of a stream after its leading sync word
CodewordsOf(d) == [k \in 1..((Len(d) - 4) \div 4) |-> BE32(d, 4 * k)]

\* C13 as stated: changing only bits 10..0 of an address or message codeword
\* after the first sync word leaves the returned list of messages, and the
\* absence of an error, unchanged.
C13_CheckBitsIgnored ==
  pc = "both" => (altRet = ret /\ ret.err = "")

\* C13: changing only bits 10..0 of an address or message codeword after the
\* first sync word leaves the returned list of messages, and the absence of
\* an error, unchanged, provided the changed word is not the idle codeword or
\* the sync word, which the decoder recognises by all 32 bits.
C13_CheckBitsIgnoredUnlessIdleOrSync ==
  (pc = "both"
     /\ \A k \in 1..((Len(altData) - 4) \div 4) :
          CodewordsOf(altData)[k] \in {IdleCodeword, FrameSyncWord}
            => CodewordsOf(data)[k] = CodewordsOf(altData)[k])
    => (altRet = ret /\ ret.err = "")

\* an address codeword whose check bits were changed, followed by a message
\* codeword: the same message is returned for both streams
C13_Witness ==
  /\ pc = "both"
  /\ Len(data) = 12
  /\ CodewordsOf(data)[1] = EncodeAddress(8, FuncAlphanumeric)
  /\ CodewordsOf(altData)[1] = WithLowBits(EncodeAddress(8, FuncAlphanumeric), 2047)
  /\ altData # data
  /\ Len(ret.messages) = 1
  /\ ret.messages[1].Message = <<65>>
  /\ altRet = ret

(***************************************************************************)
(* Two calls interleaved step by step: SpecCalls                           *)
(*                                                                         *)
(* Every variable of the four functions is a parameter or a local (:= or   *)
(* var inside the function), so each call has a frame of its own; mem maps *)
(* a location <<frame, name>> to its value and to the call that wrote it.  *)
(* SymbolHigh and SymbolLow are package variables that no code writes.     *)
(***************************************************************************)

Procs == {1, 2}

\* every call on one frame, as if the variables were package variables
SharedFrame(c) == 1

\* the frame of call c
Frame(c) == c

Loc(c, name) == <<Frame(c), name>>

\* the value call c reads from its variable name
Rd(c, name) == mem[Loc(c, name)].val

\* call c reads the variables R, assigns the variables of W, and goes to next
Do(c, R, W, next) ==
  /\ mem' = [l \in {Loc(c, n) : n \in DOMAIN W} |-> [val |-> W[l[2]], by |-> c]] @@ mem
  /\ raced' = (raced \/ \E n \in R : mem[Loc(c, n)].by # c)
  /\ calls' = [calls EXCEPT ![c].pos = next]

\* call c reads the variables R and returns value
Return(c, R, value) ==
  /\ mem' = mem
  /\ raced' = (raced \/ \E n \in R : mem[Loc(c, n)].by # c)
  /\ calls' = [calls EXCEPT ![c].done = TRUE, ![c].result = value]

Running(c, fn, pos) == calls[c].fn = fn /\ ~calls[c].done /\ calls[c].pos = pos

\* encoder.go lines 192-237, statement by statement
StepCreatePOCSAGPacket ==
  \E c \in Procs :
    \/ /\ Running(c, "CreatePOCSAGPacket", 1)
       /\ Do(c, {}, "preamble" :> Preamble, 2)
    \/ /\ Running(c, "CreatePOCSAGPacket", 2)
       /\ Do(c, {"address", "function"},
             "addressCW" :> EncodeAddress(Rd(c, "address"), Rd(c, "function")), 3)
    \/ /\ Running(c, "CreatePOCSAGPacket", 3)
       /\ Do(c, {"addressCW"}, "codewords" :> <<Rd(c, "addressCW")>>, 4)
    \/ /\ Running(c, "CreatePOCSAGPacket", 4)
       /\ Do(c, {"message", "function"},
             "encodedMessage" :> EncodeMessage(Rd(c, "message"), Rd(c, "function")), 5)
    \/ /\ Running(c, "CreatePOCSAGPacket", 5)
       /\ Do(c, {"encodedMessage"},
             "messageCWs" :> SplitMessageIntoFrames(Rd(c, "encodedMessage")), 6)
    \/ /\ Running(c, "CreatePOCSAGPacket", 6)
       /\ Do(c, {"codewords", "messageCWs"},
             "codewords" :> (Rd(c, "codewords") \o Rd(c, "messageCWs")), 7)
    \/ /\ Running(c, "CreatePOCSAGPacket", 7)
       /\ Do(c, {"codewords"}, "codewords" :> PadToBatch(Rd(c, "codewords")), 8)
    \/ /\ Running(c, "CreatePOCSAGPacket", 8)
       /\ Do(c, {"preamble", "codewords"},
             "buf" :> (Rd(c, "preamble") \o writeUint32BE(FrameSyncWord)
                         \o WriteCodewords(Rd(c, "codewords"))), 9)
    \/ /\ Running(c, "CreatePOCSAGPacket", 9)
       /\ Return(c, {"buf"}, Rd(c, "buf"))

\* audio.go lines 33-67
StepConvertToAudioWithBaudRate ==
  \E c \in Procs :
    \/ /\ Running(c, "ConvertToAudioWithBaudRate", 1)
       /\ Do(c, {"baudRate"}, "samplesPerSymbol" :> (SampleRate \div Rd(c, "baudRate")), 2)
    \/ /\ Running(c, "ConvertToAudioWithBaudRate", 2)
       /\ Do(c, {"pocsagData", "samplesPerSymbol"},
             "audioData" :> ModulatedSamples(Rd(c, "pocsagData"), Rd(c, "samplesPerSymbol")), 3)
    \/ /\ Running(c, "ConvertToAudioWithBaudRate", 3)
       /\ Return(c, {"audioData"}, createWAVFile(Rd(c, "audioData")))

\* part_000 lines 96-144
StepDecodeFromAudio ==
  \E c \in Procs :
    \/ /\ Running(c, "DecodeFromAudio", 1)
       /\ IF Len(Rd(c, "wavData")) < WavHeaderLen
            THEN Return(c, {"wavData"}, Failure(ErrTooShort))
            ELSE Do(c, {"wavData"}, "samples" :> WavSamples(Rd(c, "wavData")), 2)
    \/ /\ Running(c, "DecodeFromAudio", 2)
       /\ Do(c, {"samples"}, "bits" :> DemodulatedBits(Rd(c, "samples")), 3)
    \/ /\ Running(c, "DecodeFromAudio", 3)
       /\ Do(c, {"bits"}, "pocsagData" :> BitsToBytes(Rd(c, "bits")), 4)
    \/ /\ Running(c, "DecodeFromAudio", 4)
       /\ Return(c, {"pocsagData"}, DecodeFromBinary(Rd(c, "pocsagData")))

\* the loop's variables of call c as the record CollectStep works on
LoopLocals(c) ==
  [currentAddress |-> Rd(c, "currentAddress"),
   currentFunction |-> Rd(c, "currentFunction"),
   messageCodewords |-> Rd(c, "messageCodewords"),
   messages |-> Rd(c, "messages")]

LoopNames == {"currentAddress", "currentFunction", "messageCodewords", "messages"}

\* part_000 lines 147-216; position 3 is one iteration of the loop
StepDecodeFromBinary ==
  \E c \in Procs :
    \/ /\ Running(c, "DecodeFromBinary", 1)
       /\ Do(c, {"data"},
             ("messages" :> <<>>) @@ ("syncIdx" :> FindSync(Rd(c, "data"))), 2)
    \/ /\ Running(c, "DecodeFromBinary", 2)
       /\ IF Rd(c, "syncIdx") = -1
            THEN Return(c, {"syncIdx"}, Failure(ErrNoSync))
            ELSE Do(c, {"syncIdx"},
                    ("idx" :> (Rd(c, "syncIdx") + 4)) @@ ("currentAddress" :> 0)
                      @@ ("currentFunction" :> 0) @@ ("messageCodewords" :> <<>>), 3)
    \/ /\ Running(c, "DecodeFromBinary", 3)
       /\ IF Rd(c, "idx") + 3 < Len(Rd(c, "data"))
            THEN LET st == CollectStep(LoopLocals(c), BE32(Rd(c, "data"), Rd(c, "idx")))
                 IN  Do(c, LoopNames \cup {"idx", "data"},
                        ("idx" :> (Rd(c, "idx") + 4))
                          @@ [n \in LoopNames |-> st[n]], 3)
            ELSE Do(c, {"idx", "data"}, <<>>, 4)
    \/ /\ Running(c, "DecodeFromBinary", 4)
       /\ Return(c, LoopNames, Success(Flush(LoopLocals(c))))

\* a call: the function, its arguments by parameter name
Call(fn, args) == [fn |-> fn, args |-> args, pos |-> 1, done |-> FALSE, result |-> <<>>]

\* 7C D2 15 D8, the address codeword of address 8 with function 3, the message
\* codeword of "A"
SmallStream ==
  StreamOf(<<EncodeAddress(8, FuncAlphanumeric),
             SplitMessageIntoFrames(EncodeMessage(<<65>>, FuncAlphanumeric))[1]>>)

CallInputs ==
  {Call("CreatePOCSAGPacket",
        ("address" :> 8) @@ ("message" :> <<65>>) @@ ("function" :> FuncAlphanumeric)),
   Call("CreatePOCSAGPacket",
        ("address" :> 16) @@ ("message" :> <<49, 50>>) @@ ("function" :> FuncNumeric)),
   Call("ConvertToAudioWithBaudRate",
        ("pocsagData" :> <<170>>) @@ ("baudRate" :> BaudRate1200)),
   Call("ConvertToAudioWithBaudRate",
        ("pocsagData" :> <<85, 255>>) @@ ("baudRate" :> BaudRate2400)),
   Call("DecodeFromAudio", "wavData" :> ConvertToAudio(SmallStream)),
   Call("DecodeFromAudio", "wavData" :> Fill(0, 43)),
   Call("DecodeFromBinary", "data" :> SmallStream),
   Call("DecodeFromBinary", "data" :> <<1, 2, 3>>)}

\* the caller stores the arguments of call c in the call's parameters
Passed(c, args) == [l \in {Loc(c, n) : n \in DOMAIN args} |-> [val |-> args[l[2]], by |-> c]]

InitCalls ==
  /\ pc = "calls"
  /\ \E a \in CallInputs, b \in CallInputs :
       /\ calls = <<a, b>>
       /\ mem = Passed(2, b.args) @@ Passed(1, a.args)
  /\ raced = FALSE
  /\ NoLoop
  /\ address = 0
  /\ function = 0
  /\ message = <<>>
  /\ wavData = <<>>
  /\ data = <<>>
  /\ Blank
  /\ baudRate = BaudRate1200
  /\ x = U32(0)
  /\ y = U32(0)
  /\ encoded7bit = <<>>
  /\ altData = <<>>
  /\ altRet = NoReturn

Steps ==
  \/ StepCreatePOCSAGPacket
  \/ StepConvertToAudioWithBaudRate
  \/ StepDecodeFromAudio
  \/ StepDecodeFromBinary

NextCalls ==
  /\ Steps
  /\ UNCHANGED <<pc, address, function, message, addressCW, codewords, packet, wavData,
                 data, currentAddress, currentFunction, ret>>
  /\ UNCHANGED <<baudRate, x, y, encoded7bit, altData, altRet, loopVars>>

SpecCalls == InitCalls /\ [][NextCalls]_vars

\* what the call returns when it runs alone
Alone(call) ==
  IF call.fn = "CreatePOCSAGPacket"
    THEN CreatePOCSAGPacket(call.args["address"], call.args["message"],
                            call.args["function"])
  ELSE IF call.fn = "ConvertToAudioWithBaudRate"
    THEN ConvertToAudioWithBaudRate(call.args["pocsagData"], call.args["baudRate"])
  ELSE IF call.fn = "DecodeFromAudio" THEN DecodeFromAudio(call.args["wavData"])
  ELSE DecodeFromBinary(call.args["data"])

\* C14: when two calls (CreatePOCSAGPacket, ConvertToAudioWithBaudRate,
\* DecodeFromAudio or DecodeFromBinary) on independent inputs are interleaved
\* step by step in any order, each returns what it returns when it runs
\* alone, and no step of one call reads a value the other wrote.
C14_NoCrossCallState ==
  /\ ~raced
  /\ \A c \in Procs : calls[c].done => calls[c].result = Alone(calls[c])

\* both calls have returned: a decoder with one message and an encoder with
\* a packet of 140 bytes
C14_Witness ==
  /\ calls[1].done /\ calls[2].done
  /\ calls[1].fn = "DecodeFromBinary"
  /\ calls[2].fn = "CreatePOCSAGPacket"
  /\ Len(calls[1].result.messages) = 1
  /\ calls[1].result.messages[1].Message = <<65>>
  /\ Len(calls[2].result) = 140

(***************************************************************************)
(* CalculateBCH and CalculateEvenParity on 32-bit words: SpecWord          *)
(***************************************************************************)

MaxDataValue == 40

\* values of the 21 bits 31..11: the small ones, every single bit, all ones,
\* 0x00F123 (the field of 0x0789182E), 0x155555, 0x0AAAAA
DataValues ==
  (0..MaxDataValue) \cup {2^k : k \in 0..20} \cup {2097151, 61731, 1398101, 699050}

\* the word with bits 31..11 holding d, d < 2^21
DataWord(d) == Tup([i \in 1..32 |-> IF i >= 12 THEN (d \div (2^(i - 12))) % 2 ELSE 0])

Words == {WithLowBits(DataWord(d), v) : d \in DataValues, v \in LowBitValues \cup {1, 2}}

InitWord ==
  /\ pc = "start"
  /\ x \in Words
  /\ y = U32(0)
  /\ address = 0
  /\ function = 0
  /\ message = <<>>
  /\ wavData = <<>>
  /\ data = <<>>
  /\ Blank
  /\ baudRate = BaudRate1200
  /\ encoded7bit = <<>>
  /\ altData = <<>>
  /\ altRet = NoReturn
  /\ NoCalls
  /\ NoLoop

\* y := CalculateBCH(x)
CallCalculateBCH ==
  /\ pc = "start"
  /\ y' = CalculateBCH(x)
  /\ pc' = "bch"
  /\ UNCHANGED <<address, function, message, addressCW, codewords, packet, wavData,
                 data, currentAddress, currentFunction, ret>>
  /\ UNCHANGED <<baudRate, x, encoded7bit, altData, altRet, calls, mem, raced, loopVars>>

\* y := CalculateEvenParity(x)
CallCalculateEvenParity ==
  /\ pc = "start"
  /\ y' = CalculateEvenParity(x)
  /\ pc' = "parity"
  /\ UNCHANGED <<address, function, message, addressCW, codewords, packet, wavData,
                 data, currentAddress, currentFunction, ret>>
  /\ UNCHANGED <<baudRate, x, encoded7bit, altData, altRet, calls, mem, raced, loopVars>>

NextWord == CallCalculateBCH \/ CallCalculateEvenParity

SpecWord == InitWord /\ [][NextWord]_vars

\* A polynomial over GF(2) is the set of its exponents; addition is the
\* symmetric difference.
PolyAdd(P, Q) == (P \ Q) \cup (Q \ P)

PolyDegree(P) == CHOOSE e \in P : \A f \in P : f <= e

\* 0x769: x^10 + x^9 + x^8 + x^6 + x^5 + x^3 + 1
GeneratorExponents == {10, 9, 8, 6, 5, 3, 0}

\* the remainder of P divided by the generator
RECURSIVE PolyRem(_)
PolyRem(P) ==
  IF P = {} \/ PolyDegree(P) < 10 THEN P
  ELSE PolyRem(PolyAdd(P, {e + PolyDegree(P) - 10 : e \in GeneratorExponents}))

\* bits hi..lo of w as a polynomial, bit lo being the constant term
BitsAsPoly(w, hi, lo) == {i - lo : i \in {j \in lo..hi : Bit(w, j) = 1}}

\* C15: CalculateBCH(x) keeps bits 31..11 of x, returns bit 0 = 0 and puts in
\* bits 10..1 the remainder of the GF(2) division of the data field (times
\* x^10) by the generator 0x769, so that bits 31..1 of the result are a
\* multiple of 0x769; the result does not depend on bits 10..0 of x.
C15_BCHRemainder ==
  pc = "bch" =>
    /\ Field(y, 31, 11) = Field(x, 31, 11)
    /\ Bit(y, 0) = 0
    /\ BitsAsPoly(y, 10, 1) = PolyRem({e + 10 : e \in BitsAsPoly(x, 31, 11)})
    /\ PolyRem(BitsAsPoly(y, 31, 1)) = {}
    /\ \A v \in LowBitValues : CalculateBCH(WithLowBits(x, v)) = y

\* the field 0x00F123 with check bits all set on entry: the result is
\* 0x0789182E without its parity bit
C15_Witness ==
  /\ pc = "bch"
  /\ Field(x, 31, 11) = 61731
  /\ Field(x, 10, 0) = 2047
  /\ Field(y, 10, 0) = 46
  /\ Field(y, 31, 11) = 61731

(***************************************************************************)
(* Parity of the codewords of a packet (Spec) and of a word (SpecWord)     *)
(***************************************************************************)

\* the number of set bits of the bits hi..lo of w
SetBits(w, hi, lo) == Cardinality({i \in lo..hi : Bit(w, i) = 1})

\* C16: the address codeword from EncodeAddress and every message codeword
\* from SplitMessageIntoFrames have even parity over the whole codeword: the
\* number of set bits among bits 31..1 plus the parity bit 0 is even.
C16_CodewordParity ==
  pc # "start" =>
    /\ SetBits(addressCW, 31, 0) % 2 = 0
    /\ \A k \in 2..(1 + MessageCodewordCount) : SetBits(codewords[k], 31, 0) % 2 = 0

\* C17: for every 32-bit x, also one whose bit 0 is set, CalculateEvenParity(x)
\* leaves bits 31..1 unchanged and returns bit 0 = 1 exactly when the number
\* of set bits in positions 1 through 30 of x is odd, so that bits 30..0 of
\* the result have even parity; bit 31 is not counted.
C17_EvenParityBit ==
  pc = "parity" =>
    /\ \A i \in 1..31 : Bit(y, i) = Bit(x, i)
    /\ Bit(y, 0) = SetBits(x, 30, 1) % 2
    /\ SetBits(y, 30, 0) % 2 = 0

(***************************************************************************)
(* The address codeword of any address (SpecAddr)                          *)
(***************************************************************************)

\* C18: for every address and function code, EncodeAddress returns a codeword
\* whose type bit 31 is 0 and whose bits 30..11 hold the field built from
\* (address >> 3) & 0x7FFFF and function & 3, so that the frame decoder
\* takes it for an address codeword.
C18_AddressTypeBit ==
  pc # "start" =>
    /\ Bit(addressCW, 31) = 0
    /\ Field(addressCW, 30, 11) = ((address \div 8) % 524288) * 4 + (function % 4)

(***************************************************************************)
(* A payload buffer split into message codewords: SpecSplit                *)
(***************************************************************************)

MaxPayloadLen == 12

\* 01 23 45 67 89 AB CD EF
PayloadPattern == <<1, 35, 69, 103, 137, 171, 205, 239>>

\* buffers of every length up to MaxPayloadLen: one byte repeated (00, FF, A5,
\* 5A) or the pattern
Payloads ==
  {Fill(b, n) : b \in {0, 255, 165, 90}, n \in 0..MaxPayloadLen}
    \cup {Cycle(PayloadPattern, n) : n \in 0..MaxPayloadLen}

InitSplit ==
  /\ pc = "start"
  /\ encoded7bit \in Payloads
  /\ address = 0
  /\ function = 0
  /\ message = <<>>
  /\ wavData = <<>>
  /\ data = <<>>
  /\ Blank
  /\ baudRate = BaudRate1200
  /\ x = U32(0)
  /\ y = U32(0)
  /\ altData = <<>>
  /\ altRet = NoReturn
  /\ NoCalls
  /\ NoLoop

\* codewords := SplitMessageIntoFrames(encoded7bit)
CallSplitMessageIntoFrames ==
  /\ pc = "start"
  /\ codewords' = SplitMessageIntoFrames(encoded7bit)
  /\ pc' = "split"
  /\ UNCHANGED <<address, function, message, addressCW, packet, wavData, data,
                 currentAddress, currentFunction, ret>>
  /\ UNCHANGED others

\* bits := the 20-bit fields of the codewords, as decodeMessage expands them
ExpandFields ==
  /\ pc = "split"
  /\ data' = MessageBits(codewords)
  /\ pc' = "bits"
  /\ UNCHANGED <<address, function, message, addressCW, codewords, packet, wavData,
                 currentAddress, currentFunction, ret>>
  /\ UNCHANGED others

NextSplit == CallSplitMessageIntoFrames \/ ExpandFields

SpecSplit == InitSplit /\ [][NextSplit]_vars

\* C19: for a payload buffer of len bytes SplitMessageIntoFrames returns
\* exactly ceil(len*2/5) codewords, one per started group of 20 payload bits.
C19_CodewordCount ==
  pc # "start" => Len(codewords) = (2 * Len(encoded7bit) + 4) \div 5

\* C20: the 20-bit fields (bits 30..11) of the codewords of
\* SplitMessageIntoFrames(p), concatenated MSB first in order as decodeMessage
\* does, are the 8*len(p) bits of p in their order followed by zero bits only.
C20_FieldsCarryPayload ==
  pc = "bits" =>
    /\ Len(data) >= 8 * Len(encoded7bit)
    /\ \A k \in 1..Len(data) :
         data[k] = IF k <= 8 * Len(encoded7bit) THEN NthBit(encoded7bit, k - 1) ELSE 0

(***************************************************************************)
(* The loop of DecodeFromBinary, one codeword at a time: SpecCollect       *)
(***************************************************************************)

MaxCollectCodewords == 3

\* 0x7FFFFFFF and 0xFFFFFFFF
OnesAddressWord == Tup([i \in 1..32 |-> IF i = 32 THEN 0 ELSE 1])

OnesMessageWord == Tup([i \in 1..32 |-> 1])

\* codewords of a stream: the address codewords of address 8 with function 3,
\* of address 16 with function 0 and of address 0 with function 3, the message
\* codewords of "A" (7-bit) and of "12" (BCD), the idle codeword, the sync
\* word, and the two words of ones, which no encoder makes
CollectPool ==
  {EncodeAddress(8, FuncAlphanumeric), EncodeAddress(16, FuncNumeric),
   EncodeAddress(0, FuncAlphanumeric),
   SplitMessageIntoFrames(EncodeMessage(<<65>>, FuncAlphanumeric))[1],
   SplitMessageIntoFrames(EncodeMessage(<<49, 50>>, FuncNumeric))[1],
   IdleCodeword, FrameSyncWord, OnesAddressWord, OnesMessageWord}

\* streams with a sync word, and two inputs without
CollectInputs ==
  {StreamOf(cws) : cws \in SeqsUpTo(CollectPool, MaxCollectCodewords)}
    \cup {<<>>, <<124, 210, 21>>}

InitCollect ==
  /\ pc = "input"
  /\ data \in CollectInputs
  /\ address = 0
  /\ function = 0
  /\ message = <<>>
  /\ wavData = <<>>
  /\ Blank
  /\ baudRate = BaudRate1200
  /\ x = U32(0)
  /\ y = U32(0)
  /\ encoded7bit = <<>>
  /\ altData = <<>>
  /\ altRet = NoReturn
  /\ NoCalls
  /\ NoLoop

\* the loop's variables as the record CollectStep works on
Locals ==
  [currentAddress |-> currentAddress, currentFunction |-> currentFunction,
   messageCodewords |-> messageCodewords, messages |-> messages]

\* lines 148-169: the search for the sync word, the error, the locals
FindFirstSync ==
  /\ pc = "input"
  /\ LET syncIdx == FindSync(data)
     IN  IF syncIdx = -1
           THEN /\ ret' = Failure(ErrNoSync)
                /\ pc' = "done"
                /\ UNCHANGED <<idx, currentAddress, currentFunction, messageCodewords,
                               messages>>
           ELSE /\ idx' = syncIdx + 4
                /\ currentAddress' = CollectInit.currentAddress
                /\ currentFunction' = CollectInit.currentFunction
                /\ messageCodewords' = CollectInit.messageCodewords
                /\ messages' = CollectInit.messages
                /\ pc' = "loop"
                /\ UNCHANGED ret
  /\ UNCHANGED <<address, function, message, addressCW, codewords, packet, wavData, data>>
  /\ UNCHANGED <<baudRate, x, y, encoded7bit, altData, altRet, calls, mem, raced>>

\* lines 171-207: one iteration of the loop
ReadCodeword ==
  /\ pc = "loop"
  /\ idx + 3 < Len(data)
  /\ LET st == CollectStep(Locals, BE32(data, idx))
     IN  /\ currentAddress' = st.currentAddress
         /\ currentFunction' = st.currentFunction
         /\ messageCodewords' = st.messageCodewords
         /\ messages' = st.messages
  /\ idx' = idx + 4
  /\ UNCHANGED <<pc, address, function, message, addressCW, codewords, packet, wavData,
                 data, ret>>
  /\ UNCHANGED <<baudRate, x, y, encoded7bit, altData, altRet, calls, mem, raced>>

\* lines 209-215: the loop is over; the leftover message, the return
EndOfStream ==
  /\ pc = "loop"
  /\ ~(idx + 3 < Len(data))
  /\ messages' = Flush(Locals)
  /\ ret' = Success(messages')
  /\ pc' = "done"
  /\ UNCHANGED <<address, function, message, addressCW, codewords, packet, wavData,
                 data, currentAddress, currentFunction, idx, messageCodewords>>
  /\ UNCHANGED <<baudRate, x, y, encoded7bit, altData, altRet, calls, mem, raced>>

NextCollect == FindFirstSync \/ ReadCodeword \/ EndOfStream

SpecCollect == InitCollect /\ [][NextCollect]_vars

\* the loop is about to read a codeword; to stop
Reading == pc = "loop" /\ idx + 3 < Len(data)

Ending == pc = "loop" /\ ~(idx + 3 < Len(data))

\* the codeword the loop is about to read
NextCodeword == IF Reading THEN BE32(data, idx) ELSE U32(0)

\* type bit 0, neither the sync word nor the idle codeword
IsAddressCodeword(cw) == Bit(cw, 31) = 0 /\ cw \notin {FrameSyncWord, IdleCodeword}

ReadingAddress == Reading /\ IsAddressCodeword(NextCodeword)

ReadingMessage == Reading /\ Bit(NextCodeword, 31) = 1

\* C21: the loop emits a message exactly when it reads an address codeword or
\* reaches the end of the stream while the buffer is non-empty and the active
\* address is non-zero; the message is appended to the list, carries the
\* active address and function and the text decoded from the buffered
\* codewords in arrival order, BCD when the function is 0 and 7-bit ASCII
\* otherwise; after an address codeword the buffer is empty and the active
\* address and function are those of the codeword.
C21_EmissionStep ==
  pc = "loop" =>
    LET bits == MessageBits(messageCodewords)
        text == IF currentFunction = 0 THEN decodeNumericFromBits(bits)
                ELSE decodeAlphaFromBits(bits)
    IN  /\ (messages' # messages)
             <=> ((ReadingAddress \/ Ending)
                    /\ Len(messageCodewords) > 0 /\ currentAddress # 0)
        /\ (messages' # messages)
             => messages' = Append(messages,
                                   [Address |-> currentAddress,
                                    Function |-> currentFunction,
                                    Message |-> text,
                                    IsNumeric |-> (currentFunction = 0)])
        /\ ReadingAddress
             => /\ messageCodewords' = <<>>
                /\ currentAddress' = (Field(NextCodeword, 30, 13) % 524288) * 8
                /\ currentFunction' = Field(NextCodeword, 12, 11)
        /\ (ReadingMessage /\ currentAddress # 0)
             => messageCodewords' = Append(messageCodewords, NextCodeword)
        /\ Ending => (ret'.messages = messages' /\ ret'.err = "")

ReadWithoutContext(d, k) ==
  /\ Bit(BE32(d, 4 * k), 31) = 1
  /\ CollectAfter(d, 4, k - 1).currentAddress = 0

\* the stream d, which starts with the sync word, with every such codeword
\* replaced by the idle codeword
WithoutDiscarded(d) ==
  StreamOf([k \in 1..((Len(d) - 4) \div 4) |->
              IF ReadWithoutContext(d, k) THEN IdleCodeword ELSE BE32(d, 4 * k)])

\* C22: a message codeword read while the active address is 0 (before the
\* first address codeword, or after an address codeword of address 0) leaves
\* the buffer, the active address and function and the list of messages
\* unchanged, and the returned messages are those of the stream without it.
C22_DiscardStep ==
  /\ (ReadingMessage /\ currentAddress = 0)
       => UNCHANGED <<messageCodewords, currentAddress, currentFunction, messages>>
  /\ Ending => ret' = DecodeFromBinary(WithoutDiscarded(data))

C22_Discard == [][C22_DiscardStep]_vars

\* the address codeword of address 0, then a message codeword that was
\* dropped, then the end of the stream: nothing is returned
C22_Witness ==
  /\ pc = "done"
  /\ Len(data) = 12
  /\ BE32(data, 4) = EncodeAddress(0, FuncAlphanumeric)
  /\ Bit(BE32(data, 8), 31) = 1
  /\ currentAddress = 0
  /\ messageCodewords = <<>>
  /\ ret = Success(<<>>)

(***************************************************************************)
(* A stream and the same stream with sync words and idle codewords         *)
(* inserted, both decoded: SpecInsert                                      *)
(***************************************************************************)

MaxInsertCodewords == 3

\* the two message codewords of "ABC"
TwoCodewordMessage == SplitMessageIntoFrames(EncodeMessage(<<65, 66, 67>>, FuncAlphanumeric))

\* codewords of a stream: the address codewords of address 8 with function 3
\* and of address 16 with function 0, and the message codewords of "ABC"
InsertPool ==
  {EncodeAddress(8, FuncAlphanumeric), EncodeAddress(16, FuncNumeric),
   TwoCodewordMessage[1], TwoCodewordMessage[2]}

\* one or more sync words and idle codewords
Fillers ==
  {<<IdleCodeword>>, <<FrameSyncWord>>, <<IdleCodeword, FrameSyncWord>>,
   <<FrameSyncWord, IdleCodeword, IdleCodeword>>}

InitInsert ==
  /\ pc = "input"
  /\ \E cws \in SeqsUpTo(InsertPool, MaxInsertCodewords) :
       \E k \in 0..Len(cws) :
         \E filler \in Fillers :
           /\ data = StreamOf(cws)
           /\ altData = StreamOf(SubSeq(cws, 1, k) \o filler
                                   \o SubSeq(cws, k + 1, Len(cws)))
  /\ address = 0
  /\ function = 0
  /\ message = <<>>
  /\ wavData = <<>>
  /\ Blank
  /\ baudRate = BaudRate1200
  /\ x = U32(0)
  /\ y = U32(0)
  /\ encoded7bit = <<>>
  /\ altRet = NoReturn
  /\ NoCalls
  /\ NoLoop

NextInsert == CallDecodeFromBinaryOn \/ CallDecodeFromBinaryOnAlt

SpecInsert == InitInsert /\ [][NextInsert]_vars

\* C23: sync words and idle codewords inserted at a codeword-aligned position
\* after the first sync word of a stream, also between the codewords of one
\* message, do not end the message in progress and do not change the list of
\* messages DecodeFromBinary returns.
C23_FillersSkipped ==
  pc = "both" => (altRet = ret /\ ret.err = "")

\* an idle codeword and a sync word between the two codewords of "ABC"
C23_Witness ==
  /\ pc = "both"
  /\ Len(data) = 16
  /\ Len(altData) = 24
  /\ BE32(altData, 8) = TwoCodewordMessage[1]
  /\ BE32(altData, 12) = IdleCodeword
  /\ BE32(altData, 16) = FrameSyncWord
  /\ BE32(altData, 20) = TwoCodewordMessage[2]
  /\ Len(altRet.messages) = 1
  /\ altRet.messages[1].Message = <<65, 66, 67>>
  /\ altRet = ret

(***************************************************************************)
(* A stream and the same stream between a prefix and a short tail, both    *)
(* decoded: SpecPrefix                                                     *)
(***************************************************************************)

MaxPrefixLen == 3

MaxPrefixCodewords == 2

\* bytes before the stream: AA and 7C in every order, the first three bytes
\* of the sync word, and the sync word itself
StreamPrefixBytes ==
  SeqsUpTo({170, 124}, MaxPrefixLen) \cup {<<124, 210, 21>>, <<124, 210, 21, 216>>}

\* bytes after the last full codeword
ShortTails == {<<>>, <<1>>, <<124, 210, 21>>}

InitPrefix ==
  /\ pc = "input"
  /\ \E cws \in SeqsUpTo(InsertPool, MaxPrefixCodewords) :
       \E pre \in StreamPrefixBytes :
         \E tl \in ShortTails :
           /\ data = StreamOf(cws)
           /\ altData = pre \o StreamOf(cws) \o tl
  /\ address = 0
  /\ function = 0
  /\ message = <<>>
  /\ wavData = <<>>
  /\ Blank
  /\ baudRate = BaudRate1200
  /\ x = U32(0)
  /\ y = U32(0)
  /\ encoded7bit = <<>>
  /\ altRet = NoReturn
  /\ NoCalls
  /\ NoLoop

NextPrefix == CallDecodeFromBinaryOn \/ CallDecodeFromBinaryOnAlt

SpecPrefix == InitPrefix /\ [][NextPrefix]_vars

\* C24: DecodeFromBinary reads codewords from 4 bytes after the first
\* occurrence of the sync word, at whatever byte offset: a stream preceded by
\* n bytes, n any number, among which no occurrence of the sync word starts,
\* and followed by a group of up to 3 bytes, gives the messages of the stream
\* alone.
C24_PrefixAndTailIgnored ==
  pc = "both" =>
    \A n \in 0..(Len(altData) - Len(data)) :
      (/\ SubSeq(altData, n + 1, n + Len(data)) = data
       /\ Len(altData) - n - Len(data) <= 3
       /\ ~HasSyncWord(SubSeq(altData, 1, n + 3)))
        => (altRet = ret /\ ret.err = "")

\* a prefix of 3 bytes and a tail of 3 bytes around a stream with one message
C24_Witness ==
  /\ pc = "both"
  /\ Len(data) = 12
  /\ altData = <<170, 124, 170>> \o data \o <<124, 210, 21>>
  /\ Len(ret.messages) = 1
  /\ ret.messages[1].Address = 8
  /\ altRet = ret

(***************************************************************************)
(* The payload encoders on strings: SpecEncode                             *)
(***************************************************************************)

MaxEncodeShortLen == 2

MaxEncodeLen == 20

\* NUL, 0x01, space, 0, 9, A, U, u, -, [, ], DEL, 0x80, 0xFF
EncodeChars == {0, 1, 32, 48, 57, 65, 85, 117, 45, 91, 93, 127, 128, 255}

EncodeTexts ==
  SeqsUpTo(EncodeChars, MaxEncodeShortLen)
    \cup {Cycle(AlphaPattern, n) : n \in 0..MaxEncodeLen}
    \cup {Cycle(NumericPattern, n) : n \in 0..MaxEncodeLen}
    \cup {Fill(0, n) : n \in 0..MaxEncodeLen}

InitEncode ==
  /\ pc = "start"
  /\ message \in EncodeTexts
  /\ address = 0
  /\ function = 0
  /\ wavData = <<>>
  /\ data = <<>>
  /\ Blank
  /\ baudRate = BaudRate1200
  /\ x = U32(0)
  /\ y = U32(0)
  /\ encoded7bit = <<>>
  /\ altData = <<>>
  /\ altRet = NoReturn
  /\ NoCalls
  /\ NoLoop

\* encoded7bit := NumericBCDEncoder(message)
CallNumericBCDEncoder ==
  /\ pc = "start"
  /\ encoded7bit' = NumericBCDEncoder(message)
  /\ pc' = "bcd"
  /\ UNCHANGED <<address, function, message, addressCW, codewords, packet, wavData,
                 data, currentAddress, currentFunction, ret>>
  /\ UNCHANGED <<baudRate, x, y, altData, altRet, calls, mem, raced, loopVars>>

\* encoded7bit := Ascii7BitEncoder(message)
CallAscii7BitEncoder ==
  /\ pc = "start"
  /\ encoded7bit' = Ascii7BitEncoder(message)
  /\ pc' = "ascii"
  /\ UNCHANGED <<address, function, message, addressCW, codewords, packet, wavData,
                 data, currentAddress, currentFunction, ret>>
  /\ UNCHANGED <<baudRate, x, y, altData, altRet, calls, mem, raced, loopVars>>

NextEncode == CallNumericBCDEncoder \/ CallAscii7BitEncoder

SpecEncode == InitEncode /\ [][NextEncode]_vars

\* the BCD code of a character: 0-9, U and u, space, -, ], [, space for the rest
BCDCode(ch) ==
  CASE ch \in 48..57 -> ch - 48
    [] ch \in {85, 117} -> 11
    [] ch = 32 -> 12
    [] ch = 45 -> 13
    [] ch = 93 -> 14
    [] ch = 91 -> 15
    [] OTHER -> 12

\* the four bits of n in reverse order
Reversed4(n) == 8 * (n % 2) + 4 * ((n \div 2) % 2) + 2 * ((n \div 4) % 2) + ((n \div 8) % 2)

\* the nibble number j (from 0) of the byte sequence, high nibble first
NthNibble(bytes, j) ==
  IF j % 2 = 0 THEN bytes[(j \div 2) + 1] \div 16 ELSE bytes[(j \div 2) + 1] % 16

\* C25: for a string of n bytes NumericBCDEncoder returns ceil((n+1)/2) bytes
\* holding, two per byte and the first in the high 4 bits, the bit-reversed
\* BCD codes of the characters, then the bit-reversed terminator 0xA; when n+1
\* is odd the low nibble of the last byte is 0x3.
C25_BCDLayout ==
  pc = "bcd" =>
    LET n == Len(message)
    IN  /\ Len(encoded7bit) = (n + 2) \div 2
        /\ \A j \in 0..(n - 1) :
             NthNibble(encoded7bit, j) = Reversed4(BCDCode(message[j + 1]))
        /\ NthNibble(encoded7bit, n) = Reversed4(10)
        /\ (n + 1) % 2 = 1 => NthNibble(encoded7bit, n + 1) = 3

\* "u[" packed as D F 5 3
C25_Witness ==
  /\ pc = "bcd"
  /\ message = <<117, 91>>
  /\ encoded7bit = <<223, 83>>

\* bit number j (from 0) of the 7-bit stream of the string: bit j % 7 of
\* character j \div 7, the least significant bit first
SeptetBit(text, j) == (text[(j \div 7) + 1] \div (2^(j % 7))) % 2

\* C26: for a string of n bytes Ascii7BitEncoder returns the dense 7-bit
\* stream: read MSB first, bits 7k .. 7k+6 of the output are bits 0 .. 6 of
\* character k, with no gap at any byte boundary; every 1 bit of the stream
\* is in the output (only a final byte of zeros may be left out), the bits
\* after the stream are zero, and nothing follows the last character.
C26_DenseSeptets ==
  pc = "ascii" =>
    LET n == Len(message)
        full == (7 * n + 7) \div 8
    IN  /\ Len(encoded7bit) \in {full, full - 1}
        /\ \A j \in 0..(8 * full - 1) :
             (IF j < 8 * Len(encoded7bit) THEN NthBit(encoded7bit, j) ELSE 0)
               = (IF j < 7 * n THEN SeptetBit(message, j) ELSE 0)

\* eight characters in seven bytes: "Az 09~!A"
C26_Witness ==
  /\ pc = "ascii"
  /\ message = Cycle(AlphaPattern, 8)
  /\ encoded7bit = <<130, 188, 16, 105, 207, 225, 65>>

(***************************************************************************)
(* DecodeFromAudio on WAV inputs built window by window: SpecDemod         *)
(***************************************************************************)

MaxWindows == 17

\* windows of 40 samples: all -12287, all 12287, all -1 (sum -40), one 0 and
\* 39 times -1 (sum -39), half -12287 and half 12287 (sum 0), one -32768 and
\* 39 times 0
WindowKinds ==
  <<Fill(SymbolHigh, 40), Fill(SymbolLow, 40), Fill(-1, 40),
    <<0>> \o Fill(-1, 39), Fill(SymbolHigh, 20) \o Fill(SymbolLow, 20),
    <<-32768>> \o Fill(0, 39)>>

\* n windows, the kinds taken in turn from the kind number off
Windows(n, off) ==
  Tup([k \in 1..(40 * n) |->
         WindowKinds[(((k - 1) \div 40 + off) % Len(WindowKinds)) + 1][((k - 1) % 40) + 1]])

\* the bytes of the samples, little endian
SampleBytes(samples) ==
  Tup([k \in 1..(2 * Len(samples)) |-> LEInt16(samples[(k + 1) \div 2])[2 - (k % 2)]])

\* a header of 44 bytes, n windows, some samples of one more window and
\* perhaps one byte more
DemodInputs ==
  {Fill(0, 44) \o SampleBytes(Windows(n, off) \o Fill(-1, extra)) \o Fill(255, odd) :
     n \in 0..MaxWindows, off \in 0..(Len(WindowKinds) - 1), extra \in {0, 1, 39},
     odd \in {0, 1}}

InitDemod ==
  /\ pc = "wav"
  /\ wavData \in DemodInputs
  /\ address = 0
  /\ function = 0
  /\ message = <<>>
  /\ data = <<>>
  /\ Blank
  /\ Unused

NextDemod == CallDecodeFromAudio

SpecDemod == InitDemod /\ [][NextDemod]_vars

\* the sample number i (from 0) after the 44-byte header
SampleAt(wav, i) ==
  LET u == wav[45 + 2 * i] + 256 * wav[46 + 2 * i]
  IN  IF u >= 32768 THEN u - 65536 ELSE u

\* the sum of count samples from the sample number first
RECURSIVE SampleSum(_, _, _)
SampleSum(wav, first, count) ==
  IF count = 0 THEN 0
  ELSE SampleAt(wav, first) + SampleSum(wav, first + 1, count - 1)

\* the bit of the window number w (from 0): 1 when the average of its 40
\* samples, truncated toward zero, is negative
WindowBit(wav, w) ==
  LET sum == SampleSum(wav, 40 * w, 40)
      avg == IF sum >= 0 THEN sum \div 40 ELSE 0 - ((0 - sum) \div 40)
  IN  IF avg < 0 THEN 1 ELSE 0

\* C27: the samples after the 44-byte header are cut from sample 0 into
\* consecutive windows of 40 samples; each complete window gives one bit, 1
\* exactly when the integer average of the window, truncated toward zero, is
\* negative; eight bits make a byte, MSB first; an incomplete last window, an
\* odd last byte and a last group of fewer than 8 bits give nothing.
C27_WindowBits ==
  (pc = "done" /\ Len(wavData) >= 44) =>
    LET samples == (Len(wavData) - 44) \div 2
        windows == samples \div 40
    IN  /\ Len(data) = windows \div 8
        /\ \A k \in 1..Len(data) :
             \A j \in 0..7 :
               (data[k] \div (2^(7 - j))) % 2 = WindowBit(wavData, 8 * (k - 1) + j)

\* 17 windows, 39 samples more and an odd byte: two bytes come out, and the
\* window of sum -39 in the first byte is a 0 bit
C27_Witness ==
  /\ pc = "done"
  /\ Len(wavData) = 44 + 2 * (40 * 17 + 39) + 1
  /\ Len(data) = 2
  /\ SampleSum(wavData, 120, 40) = -39
  /\ (data[1] \div 16) % 2 = 0
  /\ SampleSum(wavData, 80, 40) = -40
  /\ (data[1] \div 32) % 2 = 1

(***************************************************************************)
(* The messages DecodeFromBinary returns (SpecCollect)                     *)
(***************************************************************************)

\* an address that is not 0, a multiple of 8 and below 2^22, a function code
\* in 0..3, and IsNumeric set exactly for function 0
WellFormedMessage(m) ==
  /\ m.Address # 0
  /\ m.Address % 8 = 0
  /\ m.Address < 4194304
  /\ m.Function \in 0..3
  /\ m.IsNumeric = (m.Function = 0)

\* C28: every DecodedMessage DecodeFromBinary collects and returns has an
\* address that is non-zero, a multiple of 8 and below 2^22, a function code
\* in 0..3 and IsNumeric true exactly when the function code is 0.
C28_MessagesWellFormed ==
  /\ \A k \in 1..Len(messages) : WellFormedMessage(messages[k])
  /\ \A k \in 1..Len(ret.messages) : WellFormedMessage(ret.messages[k])

\* the word 0x7FFFFFFF read as an address codeword, then a message codeword:
\* the greatest address, function 3
C28_Witness ==
  /\ pc = "done"
  /\ Len(data) = 12
  /\ BE32(data, 4) = OnesAddressWord
  /\ Len(ret.messages) = 1
  /\ ret.messages[1].Address = 2097144
  /\ ret.messages[1].Function = 3
  /\ ~ret.messages[1].IsNumeric

\* the codewords the loop has read so far, in order
ReadSoFar ==
  IF pc \in {"loop", "done"} /\ ret.err # ErrNoSync
    THEN [k \in 1..((idx - 4) \div 4) |-> BE32(data, 4 * k)]
    ELSE <<>>

\* the positions of the address codewords read so far
AddressPositions == {k \in 1..Len(ReadSoFar) : IsAddressCodeword(ReadSoFar[k])}

\* those with a message codeword read after them and before the next
\* address codeword
FollowedPositions ==
  {k \in AddressPositions :
     \E j \in (k + 1)..Len(ReadSoFar) :
       /\ Bit(ReadSoFar[j], 31) = 1
       /\ \A i \in (k + 1)..(j - 1) : ~IsAddressCodeword(ReadSoFar[i])}

\* C30: an address codeword with no message codeword after it before the next
\* address codeword or the end of the stream gives no DecodedMessage, so the
\* messages collected, and returned, are at most as many as the address
\* codewords read after the first sync word.
C30_MessagesPerAddress ==
  /\ Len(messages) <= Cardinality(FollowedPositions)
  /\ Len(messages) <= Cardinality(AddressPositions)
  /\ pc = "done" => Len(ret.messages) <= Cardinality(FollowedPositions)

\* three address codewords of non-zero addresses and no message codeword:
\* nothing is returned
C30_Witness ==
  /\ pc = "done"
  /\ Len(data) = 16
  /\ AddressPositions = {1, 2, 3}
  /\ currentAddress # 0
  /\ FollowedPositions = {}
  /\ ret = Success(<<>>)

(***************************************************************************)
(* Address codewords and the two filler words (SpecAddr)                   *)
(***************************************************************************)

\* C29: for no address and no function code does EncodeAddress return the
\* idle codeword 0x7A89C197 or the sync word 0x7CD215D8, so the frame
\* decoder, which compares a codeword with both before it looks at the type
\* bit, reads every encoded address codeword as one and skips none as filler.
C29_NeverIdleOrSync ==
  /\ pc # "start" => (addressCW # IdleCodeword /\ addressCW # FrameSyncWord)
  /\ (pc = "decoded" /\ Bit(addressCW, 31) = 0)
       => /\ currentAddress = FieldAddress(AddressField(addressCW))
          /\ currentFunction = FieldFunction(AddressField(addressCW))

====
